---- MODULE Spec2Model ----
(***************************************************************************)
(* Memo-Audio ("Journal Eloquent"): the AudioRecorder component, the App   *)
(* pipeline (handleRecordingComplete -> blobToBase64 -> processAudioEntry) *)
(* and the exercise round of EntryDetail, as one state machine (Spec).     *)
(* SpecTTS adds the speech buttons of EntryDetail, SpecStore adds the page *)
(* reload with the localStorage effects of App, and SpecAnalysis applies   *)
(* processAudioEntry on its own to a wider set of responses.  SpecDecode   *)
(* applies decodeAudioData to byte buffers, and SpecTransfer applies       *)
(* blobToBase64 and then decode to byte buffers.  SpecReminder is the      *)
(* settings view with the reminder poll of App, the clock and the          *)
(* browser's notification permission.                                      *)
(*                                                                         *)
(* A "session" is one invocation of startRecording.  Sessions are numbered *)
(* 1..MaxStarts in invocation order.  A recorder component instance is     *)
(* named by the first session started on it; rec[i] holds the React state  *)
(* and the refs of that instance, cur names the instance that is mounted   *)
(* (0: the mounted instance, if any, is still in its initial state).       *)
(* MediaRecorder, getUserMedia, FileReader and the remote service are the  *)
(* environment: every event they deliver is an action of its own, as the   *)
(* browser delivers it in a task of its own.                               *)
(***************************************************************************)
EXTENDS Integers, Sequences, FiniteSets, TLC

\* ---------------------------------------------------------------- bounds
MaxStarts == 2
MaxChunkLen == 1
MaxDuration == 1
\* playEloquenceTTS invocations and page reloads the model follows
MaxPlays == 2
MaxRestarts == 2
\* length of the byte buffers given to decodeAudioData and to blobToBase64
MaxBytes == 6
\* handleToggleReminder invocations that await requestPermission, and the
\* calendar days the clock runs through
MaxAsks == 2
MaxDays == 2

Sessions == 1..MaxStarts
Plays == 1..MaxPlays
\* a null ref (no session) and a null object (no entry, no feedback)
Null == 0
NullObject == [null |-> TRUE]

\* ------------------------------------------------------------- constants
Views == {"HOME", "SEARCH", "SETTINGS", "DETAILS"}
Tabs == {"transcription", "analysis", "exercise"}
ExerciseStates == {"IDLE", "RECORDING", "ANALYZING", "FEEDBACK"}
RequiredFields ==
  {"transcription", "summary", "mood", "tags", "metrics", "deepAnalysis",
   "suggestions", "eloquenceTip"}

VARIABLES
  view,            \* App: view
  entries,         \* App: entries (newest first)
  selectedEntry,   \* App: selectedEntry (an entry or NullObject)
  isProcessing,    \* App: isProcessing
  hrc,             \* handleRecordingComplete invocations, by session
  activeTab,       \* EntryDetail: activeTab
  exerciseState,   \* EntryDetail: exerciseState
  exerciseFeedback,\* EntryDetail: exerciseFeedback
  exc,             \* handleExerciseRecordingComplete invocations, by session
  rec,             \* AudioRecorder instances: state and refs
  cur,             \* the mounted AudioRecorder instance
  sess,            \* startRecording invocations and what they own
  nextSess,        \* number of startRecording invocations so far
  delivered,       \* number of onRecordingComplete invocations, by session
  blobOut,         \* the blob handed to onRecordingComplete, by session
  ignoredStop,     \* the last handler to run was a stopRecording that found
                   \* isRecording false
  reply,           \* what ai.models.generateContent came back with, by session
  requests,        \* number of ai.models.generateContent calls, by session
  analysisIn,      \* processAudioEntry on its own: the response it is given
  analysisOut,     \* processAudioEntry on its own: what it returns or throws
  playingTTS,      \* EntryDetail: playingTTS (a button id or NullTTS)
  tts,             \* handlePlayTTS invocations that reached playEloquenceTTS
  ttsRequests,     \* number of ai.models.generateContent calls, by TTS call
  nextTts,         \* number of playEloquenceTTS invocations so far
  pcmIn,           \* decodeAudioData on its own: data and numChannels
  pcmOut,          \* decodeAudioData on its own: the AudioBuffer or the error
  blobIn,          \* blobToBase64 on its own: the bytes of the blob
  base64Out,       \* blobToBase64 on its own: what the promise resolves with
  bytesOut,        \* decode on its own: the bytes returned or the error
  settings,        \* App: settings
  permission,      \* SettingsView: permission
  notificationPermission, \* the browser's Notification.permission
  asks,            \* handleToggleReminder invocations awaiting requestPermission
  now,             \* the clock: the instant new Date() returns
  lastReminderDate,\* localStorage item 'last_reminder_date'
  shown,           \* the instants at which a Notification was shown
  cancelled,       \* sessions of exercise attempts ended with "Annuler"
  storage,         \* localStorage item 'eloquent_journal_entries'
  boots            \* number of page loads after the first

vars ==
  <<view, entries, selectedEntry, isProcessing, hrc, activeTab, exerciseState,
    exerciseFeedback, exc, rec, cur, sess, nextSess, delivered, blobOut,
    ignoredStop, reply, requests, analysisIn, analysisOut, playingTTS, tts,
    ttsRequests, nextTts, pcmIn, pcmOut, blobIn, base64Out, bytesOut, storage,
    boots, settings, permission, notificationPermission, asks, now,
    lastReminderDate, shown, cancelled>>

appVars == <<view, entries, selectedEntry, isProcessing, hrc>>
detailVars == <<activeTab, exerciseState, exerciseFeedback, exc>>
recVars == <<rec, cur, sess, nextSess, delivered, blobOut>>
svcVars == <<reply, requests>>
pureVars == <<analysisIn, analysisOut>>
ttsVars == <<playingTTS, tts, ttsRequests, nextTts>>
codecVars == <<pcmIn, pcmOut, blobIn, base64Out, bytesOut>>
settingsVars ==
  <<settings, permission, notificationPermission, asks, now, lastReminderDate,
    shown>>
sideVars == <<pureVars, ttsVars, boots, codecVars, settingsVars, cancelled>>

\* ------------------------------------------------------ AudioRecorder state
FreshRec ==
  [isRecording |-> FALSE, duration |-> 0, mediaRecorderRef |-> Null,
   chunksRef |-> <<>>, timerRef |-> Null, audioContextRef |-> Null]

FreshSess ==
  [phase |-> "unused", inst |-> Null, site |-> "none", stream |-> "none",
   ownerAlive |-> FALSE, ctx |-> "none", timer |-> "none",
   received |-> <<>>, err |-> "none"]

\* playingTTS === null
NullTTS == "null"

\* a playEloquenceTTS invocation: where it is, whether a mounted EntryDetail
\* awaits it, the response it got, its error, whether source.start() ran
FreshPlay ==
  [pc |-> "idle", alive |-> FALSE, resp |-> "none", error |-> "none",
   played |-> FALSE]

CurRec == IF cur = Null THEN FreshRec ELSE rec[cur]

\* the chunk a recorder of session s emits: n bytes, each tagged with s
Chunk(s, n) == [k \in 1..n |-> s]

RECURSIVE Flatten(_)
Flatten(chunks) ==
  IF chunks = <<>> THEN <<>> ELSE Head(chunks) \o Flatten(Tail(chunks))

\* ------------------------------------------------------------- rendering
DetailMounted(v, sel) == v = "DETAILS" /\ sel # NullObject

RecorderMountedIn(v, sel, tab, ex) ==
  \/ v = "HOME"
  \/ DetailMounted(v, sel) /\ tab = "exercise" /\ ex \in {"RECORDING", "ANALYZING"}

RecorderMounted == RecorderMountedIn(view, selectedEntry, activeTab, exerciseState)

RecorderSite == IF view = "HOME" THEN "home" ELSE "detail"

\* the isProcessing prop the mounted recorder is rendered with
ProcessingProp == IF view = "HOME" THEN isProcessing ELSE exerciseState = "ANALYZING"

\* the canvas of the instance of session s is in the document
CanvasPresent(s) == RecorderMounted /\ cur = sess[s].inst /\ ~ProcessingProp

\* --------------------------------------------------------- remote service
Undefined == "undefined"

\* a response payload that carries every required field
FullPayload ==
  [f \in RequiredFields |-> IF f = "metrics" THEN "clarity:150" ELSE "text"]

\* a response payload without the metrics field
NoMetricsPayload == [FullPayload EXCEPT !["metrics"] = Undefined]

Payloads == {FullPayload, NoMetricsPayload}

\* no response yet
NoReply == [kind |-> "none"]

\* what ai.models.generateContent can come back with
Responses ==
  {[kind |-> "reject"], [kind |-> "empty"], [kind |-> "garbage"],
   [kind |-> "jsonNull"]}
  \cup {[kind |-> "json", payload |-> p] : p \in Payloads}

AnalysisFields == RequiredFields \ {"transcription"}

\* the numeric metrics of EloquenceMetrics and the top of their nominal range
MetricNames == {"clarity", "assertiveness", "vocabularyRichness"}
MetricMax == 100
MetricSamples == {-1, 0, MetricMax, MetricMax + 1}

\* payloads with every required field, the metrics in and out of 0..MetricMax
AnalysisPayloads ==
  {[f \in RequiredFields |->
      CASE f = "metrics" -> m [] f = "transcription" -> tr [] OTHER -> "text"] :
   m \in [MetricNames -> MetricSamples], tr \in {"text", ""}}

\* the responses processAudioEntry is applied to on its own
AnalysisInputs ==
  {[kind |-> "reject"], [kind |-> "empty"], [kind |-> "garbage"],
   [kind |-> "jsonNull"]}
  \cup {[kind |-> "json", payload |-> p] : p \in AnalysisPayloads}

Clamp(n) == IF n < 0 THEN 0 ELSE IF n > MetricMax THEN MetricMax ELSE n

\* processAudioEntry with the numeric metrics clamped into 0..MetricMax
ProcessAudioEntryClamped(resp) ==
  CASE resp.kind = "reject" -> [ok |-> FALSE, error |-> "TransportError"]
    [] resp.kind = "empty" -> [ok |-> FALSE, error |-> "No response from Gemini"]
    [] resp.kind = "garbage" -> [ok |-> FALSE, error |-> "SyntaxError"]
    [] resp.kind = "jsonNull" -> [ok |-> FALSE, error |-> "TypeError"]
    [] resp.kind = "json" ->
         [ok |-> TRUE,
          transcription |-> resp.payload["transcription"],
          analysis |->
            [f \in AnalysisFields |->
               IF f = "metrics"
               THEN [m \in MetricNames |-> Clamp(resp.payload[f][m])]
               ELSE resp.payload[f]]]

\* processAudioEntry without the !resultText test: JSON.parse(undefined)
ProcessAudioEntryNoEmptyCheck(resp) ==
  CASE resp.kind = "reject" -> [ok |-> FALSE, error |-> "TransportError"]
    [] resp.kind = "empty" -> [ok |-> FALSE, error |-> "SyntaxError"]
    [] resp.kind = "garbage" -> [ok |-> FALSE, error |-> "SyntaxError"]
    [] resp.kind = "jsonNull" -> [ok |-> FALSE, error |-> "TypeError"]
    [] resp.kind = "json" ->
         [ok |-> TRUE,
          transcription |-> resp.payload["transcription"],
          analysis |-> [f \in AnalysisFields |-> resp.payload[f]]]

\* processAudioEntry after the await: response.text, JSON.parse, projection
ProcessAudioEntry(resp) ==
  CASE resp.kind = "reject" -> [ok |-> FALSE, error |-> "TransportError"]
    [] resp.kind = "empty" -> [ok |-> FALSE, error |-> "No response from Gemini"]
    [] resp.kind = "garbage" -> [ok |-> FALSE, error |-> "SyntaxError"]
    [] resp.kind = "jsonNull" -> [ok |-> FALSE, error |-> "TypeError"]
    [] resp.kind = "json" ->
         [ok |-> TRUE,
          transcription |-> resp.payload["transcription"],
          analysis |-> [f \in AnalysisFields |-> resp.payload[f]]]

\* the JournalEntry handleRecordingComplete builds for call s
NewEntry(s, result) ==
  [id |-> s, transcription |-> result.transcription,
   analysis |-> result.analysis, audioUrl |-> s, isProcessing |-> FALSE]

\* ------------------------------------------------------------ persistence
\* JSON.stringify of an AnalysisResult: a property whose value is
\* undefined is left out
JsonOfAnalysis(a) == [f \in {g \in DOMAIN a : a[g] # Undefined} |-> a[f]]

\* the save effect on one entry: ({ audioUrl, ...rest }) => rest, then
\* JSON.stringify, which leaves out a transcription that is undefined
JsonOfEntry(e) ==
  LET rest == [f \in DOMAIN e \ {"audioUrl"} |-> e[f]]
      kept == {g \in DOMAIN rest : g # "transcription" \/ rest[g] # Undefined}
  IN [f \in kept |-> IF f = "analysis" THEN JsonOfAnalysis(rest[f]) ELSE rest[f]]

\* the save effect: entries.map(...) and JSON.stringify
SaveEntries(es) == [k \in 1..Len(es) |-> JsonOfEntry(es[k])]

\* reading property f of a parsed object: undefined when the key is absent
Get(j, f) == IF f \in DOMAIN j THEN j[f] ELSE Undefined

\* JSON.parse of one stored entry, as the components read it; it has no
\* audioUrl
ParseEntry(j) ==
  [id |-> j["id"], transcription |-> Get(j, "transcription"),
   analysis |-> [f \in AnalysisFields |-> Get(j["analysis"], f)],
   audioUrl |-> Null, isProcessing |-> j["isProcessing"]]

\* the load effect: JSON.parse(savedEntries)
LoadEntries(st) == [k \in 1..Len(st) |-> ParseEntry(st[k])]

\* the mount effects with the save effect declared before the load effect
StartupSaveFirst(st) ==
  LET mounted == SaveEntries(<<>>)
      parsed == LoadEntries(mounted)
  IN [entries |-> parsed, storage |-> SaveEntries(parsed)]

\* the mount effects of App in declaration order: the load effect reads the
\* item, the save effect stores the still empty collection, and the render
\* after setEntries(parsed) runs the save effect on the loaded collection
Startup(st) ==
  LET parsed == LoadEntries(st)
      mounted == SaveEntries(<<>>)
  IN [entries |-> parsed,
      storage |-> IF parsed = <<>> THEN mounted ELSE SaveEntries(parsed)]

\* ------------------------------------------------- mounting and unmounting
\* the AudioRecorder unmount cleanup effect on instance c:
\* stopVisualizer() and clearInterval(timerRef.current)
UnmountRecorder(R, S, c) ==
  IF c = Null THEN [rec |-> R, sess |-> S]
  ELSE LET a == R[c].audioContextRef
           t == R[c].timerRef
       IN [rec |-> [R EXCEPT ![c].audioContextRef = Null],
           sess |-> [x \in Sessions |->
                      [S[x] EXCEPT
                         !.ctx = IF x = a /\ @ = "open" THEN "closed" ELSE @,
                         !.timer = IF x = t /\ @ = "running" THEN "cleared" ELSE @]]]

\* React keeps the recorder instance across this step
KeepsRecorder ==
  RecorderMounted /\ RecorderMounted' /\ RecorderSite' = RecorderSite

\* effect of a re-render on the AudioRecorder instance
RenderRecorder ==
  IF RecorderMounted /\ ~KeepsRecorder
  THEN LET u == UnmountRecorder(rec, sess, cur)
       IN rec' = u.rec /\ sess' = u.sess /\ cur' = Null
  ELSE UNCHANGED <<rec, cur, sess>>

InitApp ==
  /\ view = "HOME"
  /\ entries = <<>>
  /\ selectedEntry = NullObject
  /\ isProcessing = FALSE
  /\ hrc = [s \in Sessions |-> "idle"]
  /\ activeTab = "transcription"
  /\ exerciseState = "IDLE"
  /\ exerciseFeedback = NullObject
  /\ exc = [s \in Sessions |-> "idle"]
  /\ rec = [s \in Sessions |-> FreshRec]
  /\ cur = Null
  /\ sess = [s \in Sessions |-> FreshSess]
  /\ nextSess = 0
  /\ delivered = [s \in Sessions |-> 0]
  /\ blobOut = [s \in Sessions |-> <<>>]
  /\ ignoredStop = FALSE
  /\ cancelled = {}
  /\ reply = [s \in Sessions |-> NoReply]
  /\ requests = [s \in Sessions |-> 0]

\* EntryDetail's useState(null) for playingTTS; no playEloquenceTTS call yet
InitTTS ==
  /\ playingTTS = NullTTS
  /\ tts = [c \in Plays |-> FreshPlay]
  /\ ttsRequests = [c \in Plays |-> 0]
  /\ nextTts = 0

\* first page load: no item is stored, the save effect stores the empty
\* collection
InitStore ==
  /\ storage = SaveEntries(<<>>)
  /\ boots = 0

\* --------------------------------------------------------------- settings
\* values of the <input type="time"> the model follows, and the instants of
\* a day at which the clock is looked at, as toLocaleTimeString formats them
TimeValues == {"08:30", "20:00"}
DaySlots == <<"08:30", "12:00", "20:00">>

DEFAULT_SETTINGS == [reminderEnabled |-> FALSE, reminderTime |-> "20:00"]

NotificationPermissions == {"default", "granted", "denied"}

Asks == 1..MaxAsks

FreshAsk == [pc |-> "idle", settings |-> DEFAULT_SETTINGS, alive |-> FALSE]

\* useState(DEFAULT_SETTINGS) with nothing stored; no SettingsView mounted;
\* no 'last_reminder_date' item
InitSettings ==
  /\ settings = DEFAULT_SETTINGS
  /\ permission = "default"
  /\ notificationPermission = "default"
  /\ asks = [a \in Asks |-> FreshAsk]
  /\ now = 0
  /\ lastReminderDate = Null
  /\ shown = <<>>

\* no buffer is being decoded or encoded on its own
InitCodec ==
  /\ pcmIn = NullObject /\ pcmOut = NullObject
  /\ blobIn = <<>> /\ base64Out = NullObject /\ bytesOut = NullObject

Init ==
  /\ InitApp
  /\ analysisIn = NoReply
  /\ analysisOut = NullObject
  /\ InitTTS
  /\ InitStore
  /\ InitCodec
  /\ InitSettings

\* ------------------------------------------------------------ AudioRecorder
\* record button while !isRecording: startRecording up to the await
StartRecording ==
  /\ RecorderMounted /\ ~ProcessingProp
  /\ ~CurRec.isRecording
  /\ nextSess < MaxStarts
  /\ LET s == nextSess + 1
         i == IF cur = Null THEN s ELSE cur
     IN /\ nextSess' = s
        /\ cur' = i
        /\ sess' = [sess EXCEPT ![s] =
                      [FreshSess EXCEPT !.phase = "acquiring", !.inst = i,
                                        !.site = RecorderSite,
                                        !.ownerAlive = TRUE]]
  /\ ignoredStop' = FALSE
  /\ UNCHANGED <<sideVars, storage>>
  /\ UNCHANGED svcVars
  /\ UNCHANGED <<appVars, detailVars, rec, delivered, blobOut>>

\* getUserMedia rejects: the catch block of startRecording
StartErrorDisposition == "swallowed"

GetUserMediaRejected(s) ==
  /\ sess[s].phase = "acquiring"
  /\ sess' = [sess EXCEPT ![s].phase = "failed",
                          ![s].err = StartErrorDisposition]
  /\ ignoredStop' = FALSE
  /\ UNCHANGED <<sideVars, storage>>
  /\ UNCHANGED svcVars
  /\ UNCHANGED <<appVars, detailVars, rec, cur, nextSess, delivered, blobOut>>

\* getUserMedia resolves: the rest of the try block of startRecording
GetUserMediaResolved(s) ==
  /\ sess[s].phase = "acquiring"
  /\ LET i == sess[s].inst
         mounted == RecorderMounted /\ cur = i
         canvas == CanvasPresent(s)
         r == rec[i]
     IN /\ rec' = [rec EXCEPT ![i] =
                    [r EXCEPT
                       !.audioContextRef = IF canvas THEN s ELSE @,
                       !.mediaRecorderRef = s,
                       !.chunksRef = <<>>,
                       !.isRecording = IF mounted THEN TRUE ELSE @,
                       !.duration = IF mounted THEN 0 ELSE @,
                       !.timerRef = s]]
        /\ sess' = [sess EXCEPT ![s] =
                     [@ EXCEPT !.phase = "recording", !.stream = "live",
                               !.ctx = IF canvas THEN "open" ELSE "none",
                               !.timer = "running"]]
  /\ ignoredStop' = FALSE
  /\ UNCHANGED <<sideVars, storage>>
  /\ UNCHANGED svcVars
  /\ UNCHANGED <<appVars, detailVars, cur, nextSess, delivered, blobOut>>

\* the statements of startRecording's try block that can throw once the
\* stream is acquired: new AudioContext (startVisualizer, only reached with
\* a canvas), new MediaRecorder(stream), mediaRecorder.start()
StartSteps == {"visualizer", "recorder", "start"}

\* getUserMedia resolves and a later statement of the try block throws: the
\* catch block logs and alerts; it stops no track and closes no context
StartThrows(s, step) ==
  /\ sess[s].phase = "acquiring"
  /\ step \in StartSteps
  /\ LET i == sess[s].inst
         canvas == CanvasPresent(s)
         visualized == canvas /\ step # "visualizer"
         r == rec[i]
     IN /\ (step = "visualizer" => canvas)
        /\ rec' = [rec EXCEPT ![i] =
                    [r EXCEPT
                       !.audioContextRef = IF visualized THEN s ELSE @,
                       !.mediaRecorderRef = IF step = "start" THEN s ELSE @,
                       !.chunksRef = IF step = "start" THEN <<>> ELSE @]]
        /\ sess' = [sess EXCEPT ![s] =
                     [@ EXCEPT !.phase = "failed", !.stream = "live",
                               !.ctx = IF visualized THEN "open" ELSE "none",
                               !.err = StartErrorDisposition]]
  /\ ignoredStop' = FALSE
  /\ UNCHANGED <<sideVars, storage>>
  /\ UNCHANGED svcVars
  /\ UNCHANGED <<appVars, detailVars, cur, nextSess, delivered, blobOut>>

\* stopRecording with setDuration(0) placed outside the isRecording guard
StopRecordingRecResetsDuration(r) ==
  IF r.mediaRecorderRef # Null /\ r.isRecording
  THEN [r EXCEPT !.isRecording = FALSE]
  ELSE [r EXCEPT !.duration = 0]

\* stopRecording: the instance state it leaves behind
StopRecordingRec(r) ==
  IF r.mediaRecorderRef # Null /\ r.isRecording
  THEN [r EXCEPT !.isRecording = FALSE]
  ELSE r

\* stopRecording: mediaRecorder.stop() and clearInterval on the sessions
StopRecordingSess(r, S) ==
  IF r.mediaRecorderRef # Null /\ r.isRecording
  THEN [x \in Sessions |->
         [S[x] EXCEPT
            !.phase = IF x = r.mediaRecorderRef /\ @ = "recording"
                      THEN "stopping" ELSE @,
            !.timer = IF x = r.timerRef /\ @ = "running" THEN "cleared" ELSE @]]
  ELSE S

\* stopRecording, from the record button or called while not recording
StopRecording ==
  /\ RecorderMounted /\ ~ProcessingProp
  /\ LET r == CurRec
     IN /\ rec' = IF cur = Null THEN rec
                  ELSE [rec EXCEPT ![cur] = StopRecordingRec(r)]
        /\ sess' = StopRecordingSess(r, sess)
        /\ ignoredStop' = ~r.isRecording
        /\ UNCHANGED <<sideVars, storage>>
        /\ UNCHANGED svcVars
  /\ UNCHANGED <<appVars, detailVars, cur, nextSess, delivered, blobOut>>

\* new Blob(chunksRef.current): the concatenation of the chunks
BlobOf(chunks) == Flatten(chunks)

\* onRecordingComplete(blob) called from ondataavailable and from onstop
DeliverTwice(d, s) == [d EXCEPT ![s] = @ + 2]

\* onRecordingComplete(blob) in onstop
Deliver(d, s) == [d EXCEPT ![s] = @ + 1]

\* the task MediaRecorder.stop() queued: dataavailable with the n bytes
\* gathered, then the stop event (ondataavailable, then onstop)
StopTask(s, n) ==
  /\ sess[s].phase = "stopping"
  /\ LET i == sess[s].inst
         chunk == Chunk(s, n)
         chunks == IF n > 0 THEN Append(rec[i].chunksRef, chunk)
                   ELSE rec[i].chunksRef
         a == rec[i].audioContextRef
     IN /\ rec' = [rec EXCEPT ![i].chunksRef = chunks,
                              ![i].audioContextRef = Null]
        /\ sess' = [x \in Sessions |->
                     [sess[x] EXCEPT
                        !.ctx = IF x = a /\ @ = "open" THEN "closed" ELSE @,
                        !.phase = IF x = s THEN "stopped" ELSE @,
                        !.stream = IF x = s THEN "stopped" ELSE @,
                        !.received = IF x = s THEN Append(@, chunk) ELSE @]]
        /\ blobOut' = [blobOut EXCEPT ![s] = BlobOf(chunks)]
        /\ delivered' = Deliver(delivered, s)
  /\ IF sess[s].site = "home"
     THEN /\ isProcessing' = TRUE
          /\ hrc' = [hrc EXCEPT ![s] = "encoding"]
          /\ UNCHANGED <<view, entries, selectedEntry, detailVars>>
     ELSE /\ exerciseState' = IF sess[s].ownerAlive THEN "ANALYZING"
                              ELSE exerciseState
          /\ exc' = [exc EXCEPT ![s] = "encoding"]
          /\ UNCHANGED <<appVars, activeTab, exerciseFeedback>>
  /\ ignoredStop' = FALSE
  /\ UNCHANGED <<sideVars, storage>>
  /\ UNCHANGED svcVars
  /\ UNCHANGED <<cur, nextSess>>

\* the interval callback of session s: setDuration(prev => prev + 1)
Tick(s) ==
  /\ sess[s].timer = "running"
  /\ RecorderMounted /\ cur = sess[s].inst
  /\ rec[cur].duration < MaxDuration
  /\ rec' = [rec EXCEPT ![cur].duration = @ + 1]
  /\ ignoredStop' = FALSE
  /\ UNCHANGED <<sideVars, storage>>
  /\ UNCHANGED svcVars
  /\ UNCHANGED <<appVars, detailVars, cur, sess, nextSess, delivered, blobOut>>

\* ---------------------------------------------------------------------- App
\* one ai.models.generateContent call and a second one after it
IssueRequestAndRetry(q, s) == [q EXCEPT ![s] = @ + 2]

\* the single await ai.models.generateContent(...) of a service function
IssueRequest(q, s) == [q EXCEPT ![s] = @ + 1]

\* handleRecordingComplete storing a temporary entry before the remote call
HrcEncodedStoresEntryFirst(s) ==
  /\ hrc[s] = "encoding"
  /\ hrc' = [hrc EXCEPT ![s] = "sending"]
  /\ entries' = <<[id |-> s, transcription |-> Undefined,
                   analysis |-> NullObject, audioUrl |-> s,
                   isProcessing |-> TRUE]>> \o entries
  /\ ignoredStop' = FALSE
  /\ UNCHANGED <<sideVars, storage>>
  /\ requests' = IssueRequest(requests, s)
  /\ UNCHANGED reply
  /\ UNCHANGED <<view, selectedEntry, isProcessing, detailVars, recVars>>

\* handleRecordingComplete: blobToBase64 resolved, processAudioEntry called
HrcEncoded(s) ==
  /\ hrc[s] = "encoding"
  /\ hrc' = [hrc EXCEPT ![s] = "sending"]
  /\ ignoredStop' = FALSE
  /\ UNCHANGED <<sideVars, storage>>
  /\ requests' = IssueRequest(requests, s)
  /\ UNCHANGED reply
  /\ UNCHANGED <<view, entries, selectedEntry, isProcessing, detailVars, recVars>>

\* catch and finally, with the temporary entry left in the collection
HrcFailedKeepsTemporaryEntry(s) ==
  /\ hrc' = [hrc EXCEPT ![s] = "failed"]
  /\ isProcessing' = FALSE
  /\ entries' = <<[id |-> s, transcription |-> Undefined,
                   analysis |-> NullObject, audioUrl |-> s,
                   isProcessing |-> TRUE]>> \o entries
  /\ ignoredStop' = FALSE
  /\ UNCHANGED <<sideVars, storage>>
  /\ UNCHANGED <<view, selectedEntry, detailVars, recVars>>

\* handleRecordingComplete: catch and finally
HrcFailed(s) ==
  /\ hrc' = [hrc EXCEPT ![s] = "failed"]
  /\ isProcessing' = FALSE
  /\ ignoredStop' = FALSE
  /\ UNCHANGED <<sideVars, storage>>
  /\ UNCHANGED <<view, entries, selectedEntry, detailVars, recVars>>

\* handleRecordingComplete: blobToBase64 rejected (reader.onerror)
HrcEncodeFailed(s) ==
  /\ hrc[s] = "encoding"
  /\ HrcFailed(s)
  /\ UNCHANGED svcVars

\* handleRecordingComplete with setEntries([newEntry])
HrcSucceededDropsPrevious(s, result) ==
  /\ hrc' = [hrc EXCEPT ![s] = "succeeded"]
  /\ entries' = <<NewEntry(s, result)>>
  /\ selectedEntry' = NewEntry(s, result)
  /\ view' = "DETAILS"
  /\ isProcessing' = FALSE
  /\ ignoredStop' = FALSE
  /\ UNCHANGED sideVars
  /\ storage' = SaveEntries(entries')
  /\ UNCHANGED <<detailVars, nextSess, delivered, blobOut>>
  /\ RenderRecorder

\* handleRecordingComplete without setSelectedEntry(newEntry)
HrcSucceededKeepsSelection(s, result) ==
  /\ hrc' = [hrc EXCEPT ![s] = "succeeded"]
  /\ entries' = <<NewEntry(s, result)>> \o entries
  /\ view' = "DETAILS"
  /\ isProcessing' = FALSE
  /\ ignoredStop' = FALSE
  /\ UNCHANGED sideVars
  /\ storage' = SaveEntries(entries')
  /\ UNCHANGED <<selectedEntry, detailVars, nextSess, delivered, blobOut>>
  /\ RenderRecorder

\* handleRecordingComplete: the entry is stored, selected and shown
HrcSucceeded(s, result) ==
  /\ hrc' = [hrc EXCEPT ![s] = "succeeded"]
  /\ entries' = <<NewEntry(s, result)>> \o entries
  /\ selectedEntry' = NewEntry(s, result)
  /\ view' = "DETAILS"
  /\ isProcessing' = FALSE
  /\ ignoredStop' = FALSE
  /\ UNCHANGED sideVars
  /\ storage' = SaveEntries(entries')
  /\ UNCHANGED <<detailVars, nextSess, delivered, blobOut>>
  /\ RenderRecorder

\* handleRecordingComplete: the remote call of processAudioEntry completes
HrcResponse(s, resp) ==
  /\ hrc[s] = "sending"
  /\ LET result == ProcessAudioEntry(resp)
     IN IF result.ok THEN HrcSucceeded(s, result) ELSE HrcFailed(s)
  /\ reply' = [reply EXCEPT ![s] = resp]
  /\ UNCHANGED requests

\* nav bar, "Tout voir", the Mic button of SEARCH, onBack of SettingsView
SetView(v) ==
  /\ view # "DETAILS"
  /\ v \in {"HOME", "SEARCH", "SETTINGS"} /\ v # view
  /\ view' = v
  /\ ignoredStop' = FALSE
  /\ UNCHANGED <<sideVars, storage>>
  /\ UNCHANGED svcVars
  /\ UNCHANGED <<entries, selectedEntry, isProcessing, hrc, detailVars,
                 nextSess, delivered, blobOut>>
  /\ RenderRecorder

\* handleSelectEntry, from the EntryList of HOME or SEARCH
HandleSelectEntry(k) ==
  /\ view \in {"HOME", "SEARCH"}
  /\ k \in 1..Len(entries)
  /\ view = "HOME" => k <= 3
  /\ selectedEntry' = entries[k]
  /\ view' = "DETAILS"
  /\ ignoredStop' = FALSE
  /\ UNCHANGED <<sideVars, storage>>
  /\ UNCHANGED svcVars
  /\ UNCHANGED <<entries, isProcessing, hrc, detailVars, nextSess, delivered,
                 blobOut>>
  /\ RenderRecorder

\* -------------------------------------------------------------- EntryDetail
FeedbackFields == {"transcription", "success", "score", "critique"}

FullFeedback ==
  [f \in FeedbackFields |->
     CASE f = "success" -> "true" [] f = "score" -> "9" [] OTHER -> "text"]

NoScoreFeedback == [FullFeedback EXCEPT !["score"] = Undefined]

ExerciseResponses ==
  {[kind |-> "reject"], [kind |-> "empty"], [kind |-> "garbage"],
   [kind |-> "jsonNull"]}
  \cup {[kind |-> "json", payload |-> p] : p \in {FullFeedback, NoScoreFeedback}}

\* evaluateExercise returning success, score and critique only
EvaluateExerciseWithoutTranscription(resp) ==
  CASE resp.kind = "reject" -> [ok |-> FALSE, error |-> "TransportError"]
    [] resp.kind = "empty" -> [ok |-> FALSE, error |-> "SyntaxError"]
    [] resp.kind = "garbage" -> [ok |-> FALSE, error |-> "SyntaxError"]
    [] resp.kind = "jsonNull" -> [ok |-> TRUE, feedback |-> NullObject]
    [] resp.kind = "json" ->
         [ok |-> TRUE,
          feedback |-> [resp.payload EXCEPT !["transcription"] = Undefined]]

\* evaluateExercise after the await: JSON.parse(response.text!)
EvaluateExercise(resp) ==
  CASE resp.kind = "reject" -> [ok |-> FALSE, error |-> "TransportError"]
    [] resp.kind = "empty" -> [ok |-> FALSE, error |-> "SyntaxError"]
    [] resp.kind = "garbage" -> [ok |-> FALSE, error |-> "SyntaxError"]
    [] resp.kind = "jsonNull" -> [ok |-> TRUE, feedback |-> NullObject]
    [] resp.kind = "json" -> [ok |-> TRUE, feedback |-> resp.payload]

\* onBack of EntryDetail: the detail view and its recorder are unmounted
OnBack ==
  /\ view = "DETAILS"
  /\ view' = "HOME"
  /\ activeTab' = "transcription"
  /\ exerciseState' = "IDLE"
  /\ exerciseFeedback' = NullObject
  /\ LET u == UnmountRecorder(rec, sess, cur)
     IN /\ rec' = u.rec
        /\ sess' = [x \in Sessions |->
                     [u.sess[x] EXCEPT
                        !.ownerAlive = IF u.sess[x].site = "detail"
                                       THEN FALSE ELSE @]]
  /\ cur' = Null
  /\ ignoredStop' = FALSE
  /\ playingTTS' = NullTTS
  /\ tts' = [c \in Plays |-> [tts[c] EXCEPT !.alive = FALSE]]
  /\ UNCHANGED <<pureVars, ttsRequests, nextTts, storage, boots, cancelled,
                 settingsVars, codecVars>>
  /\ UNCHANGED svcVars
  /\ UNCHANGED <<entries, selectedEntry, isProcessing, hrc, exc, nextSess,
                 delivered, blobOut>>

\* the tab buttons of EntryDetail
SetActiveTab(t) ==
  /\ view = "DETAILS"
  /\ t \in Tabs /\ t # activeTab
  /\ activeTab' = t
  /\ ignoredStop' = FALSE
  /\ UNCHANGED <<sideVars, storage>>
  /\ UNCHANGED svcVars
  /\ UNCHANGED <<appVars, exerciseState, exerciseFeedback, exc, nextSess,
                 delivered, blobOut>>
  /\ RenderRecorder

\* the sessions started on the recorder of the exercise attempt under way
\* that have not handed over a blob
AttemptSessions ==
  {s \in Sessions :
     /\ sess[s].site = "detail" /\ sess[s].ownerAlive /\ sess[s].inst = cur
     /\ sess[s].phase \in {"acquiring", "recording", "stopping"}
     /\ delivered[s] = 0}

\* "Commencer l'exercice", "Annuler", "Reessayer": setExerciseState
SetExerciseState(from, to) ==
  /\ view = "DETAILS" /\ activeTab = "exercise"
  /\ exerciseState = from
  /\ from = "FEEDBACK" => exerciseFeedback # NullObject
  /\ exerciseState' = to
  /\ ignoredStop' = FALSE
  /\ cancelled' = IF from = "RECORDING" /\ to = "IDLE"
                  THEN cancelled \cup AttemptSessions ELSE cancelled
  /\ UNCHANGED <<pureVars, ttsVars, boots, codecVars, settingsVars, storage>>
  /\ UNCHANGED svcVars
  /\ UNCHANGED <<appVars, activeTab, exerciseFeedback, exc, nextSess,
                 delivered, blobOut>>
  /\ RenderRecorder

StartExercise == SetExerciseState("IDLE", "RECORDING")

CancelExercise == SetExerciseState("RECORDING", "IDLE")

RetryExercise == SetExerciseState("FEEDBACK", "IDLE")

\* handleExerciseRecordingComplete: blobToBase64 resolved, evaluateExercise called
HercEncoded(s) ==
  /\ exc[s] = "encoding"
  /\ exc' = [exc EXCEPT ![s] = "sending"]
  /\ ignoredStop' = FALSE
  /\ UNCHANGED <<sideVars, storage>>
  /\ requests' = IssueRequest(requests, s)
  /\ UNCHANGED reply
  /\ UNCHANGED <<appVars, activeTab, exerciseState, exerciseFeedback, recVars>>

\* handleExerciseRecordingComplete: catch
HercFailed(s) ==
  /\ exc' = [exc EXCEPT ![s] = "failed"]
  /\ exerciseState' = IF sess[s].ownerAlive THEN "IDLE" ELSE exerciseState
  /\ ignoredStop' = FALSE
  /\ UNCHANGED <<sideVars, storage>>
  /\ UNCHANGED <<appVars, activeTab, exerciseFeedback, nextSess, delivered,
                 blobOut>>
  /\ RenderRecorder

\* handleExerciseRecordingComplete: blobToBase64 rejected
HercEncodeFailed(s) ==
  /\ exc[s] = "encoding"
  /\ HercFailed(s)
  /\ UNCHANGED svcVars

\* handleExerciseRecordingComplete: setExerciseFeedback, setExerciseState
HercSucceeded(s, feedback) ==
  /\ exc' = [exc EXCEPT ![s] = "succeeded"]
  /\ exerciseFeedback' = IF sess[s].ownerAlive THEN feedback
                         ELSE exerciseFeedback
  /\ exerciseState' = IF sess[s].ownerAlive THEN "FEEDBACK" ELSE exerciseState
  /\ ignoredStop' = FALSE
  /\ UNCHANGED <<sideVars, storage>>
  /\ UNCHANGED <<appVars, activeTab, nextSess, delivered, blobOut>>
  /\ RenderRecorder

\* handleExerciseRecordingComplete: the remote call of evaluateExercise completes
HercResponse(s, resp) ==
  /\ exc[s] = "sending"
  /\ LET result == EvaluateExercise(resp)
     IN IF result.ok THEN HercSucceeded(s, result.feedback) ELSE HercFailed(s)
  /\ reply' = [reply EXCEPT ![s] = resp]
  /\ UNCHANGED requests

\* ------------------------------------------------------------ specification
Next ==
  \/ StartRecording
  \/ \E s \in Sessions : GetUserMediaRejected(s)
  \/ \E s \in Sessions : GetUserMediaResolved(s)
  \/ \E s \in Sessions, step \in StartSteps : StartThrows(s, step)
  \/ StopRecording
  \/ \E s \in Sessions, n \in 0..MaxChunkLen : StopTask(s, n)
  \/ \E s \in Sessions : Tick(s)
  \/ \E s \in Sessions : HrcEncoded(s)
  \/ \E s \in Sessions : HrcEncodeFailed(s)
  \/ \E s \in Sessions, resp \in Responses : HrcResponse(s, resp)
  \/ \E v \in Views : SetView(v)
  \/ \E k \in 1..MaxStarts : HandleSelectEntry(k)
  \/ OnBack
  \/ \E t \in Tabs : SetActiveTab(t)
  \/ StartExercise
  \/ CancelExercise
  \/ RetryExercise
  \/ \E s \in Sessions : HercEncoded(s)
  \/ \E s \in Sessions : HercEncodeFailed(s)
  \/ \E s \in Sessions, resp \in ExerciseResponses : HercResponse(s, resp)

Spec == Init /\ [][Next]_vars

\* ------------------------------------------------------------ page reload
\* the page is closed and loaded again: every component is constructed
\* anew, the recorders, streams and pending calls of the old page are gone
\* (their sessions are forgotten, their numbers are not reused), and the
\* mount effects of App run
Restart ==
  /\ boots < MaxRestarts
  /\ boots' = boots + 1
  /\ entries' = Startup(storage).entries
  /\ storage' = Startup(storage).storage
  /\ view' = "HOME"
  /\ selectedEntry' = NullObject
  /\ isProcessing' = FALSE
  /\ hrc' = [s \in Sessions |-> "idle"]
  /\ activeTab' = "transcription"
  /\ exerciseState' = "IDLE"
  /\ exerciseFeedback' = NullObject
  /\ exc' = [s \in Sessions |-> "idle"]
  /\ rec' = [s \in Sessions |-> FreshRec]
  /\ cur' = Null
  /\ sess' = [s \in Sessions |-> FreshSess]
  /\ delivered' = [s \in Sessions |-> 0]
  /\ blobOut' = [s \in Sessions |-> <<>>]
  /\ ignoredStop' = FALSE
  /\ reply' = [s \in Sessions |-> NoReply]
  /\ requests' = [s \in Sessions |-> 0]
  /\ UNCHANGED <<nextSess, pureVars, ttsVars, codecVars, settingsVars,
                 cancelled>>

NextStore == Next \/ Restart

SpecStore == Init /\ [][NextStore]_vars

\* ------------------------------------------------- EntryDetail: speech
\* the buttons that call handlePlayTTS: one per suggestion on the analysis
\* tab, one for exampleImproved on the exercise tab
TTSButtons == [analysis |-> "sug-0", exercise |-> "improved"]

\* what the speech request can come back with: a rejection, a response
\* without inlineData, PCM audio
TTSResponses == {"reject", "noAudio", "audio"}

\* playEloquenceTTS after the await
PlayEloquenceTTS(resp) ==
  CASE resp = "reject" -> [ok |-> FALSE, error |-> "TransportError"]
    [] resp = "noAudio" -> [ok |-> FALSE, error |-> "No audio data returned"]
    [] resp = "audio" -> [ok |-> TRUE, error |-> "none"]

\* handlePlayTTS with setPlayingTTS(null) as the last statement of the try
\* block
ClearPlayingTTSOnSuccessOnly(p, alive, ok) ==
  IF alive /\ ok THEN NullTTS ELSE p

\* handlePlayTTS: finally { setPlayingTTS(null) }, without effect once the
\* EntryDetail is unmounted
ClearPlayingTTS(p, alive, ok) == IF alive THEN NullTTS ELSE p

\* handlePlayTTS up to the await inside playEloquenceTTS
HandlePlayTTS ==
  /\ view = "DETAILS" /\ activeTab \in DOMAIN TTSButtons
  /\ IF playingTTS # NullTTS
     THEN UNCHANGED ttsVars
     ELSE /\ nextTts < MaxPlays
          /\ nextTts' = nextTts + 1
          /\ playingTTS' = TTSButtons[activeTab]
          /\ tts' = [tts EXCEPT ![nextTts + 1] =
                       [FreshPlay EXCEPT !.pc = "requesting", !.alive = TRUE]]
          /\ ttsRequests' = IssueRequest(ttsRequests, nextTts + 1)
  /\ UNCHANGED <<appVars, detailVars, recVars, ignoredStop, svcVars, pureVars,
                 storage, boots, cancelled, settingsVars, codecVars>>

\* the speech request completes: the rest of playEloquenceTTS, then catch
\* and finally of handlePlayTTS
TTSResponse(c, resp) ==
  /\ tts[c].pc = "requesting"
  /\ LET result == PlayEloquenceTTS(resp)
     IN /\ tts' = [tts EXCEPT ![c] =
                     [@ EXCEPT !.pc = IF result.ok THEN "resolved" ELSE "failed",
                               !.alive = FALSE,
                               !.resp = resp,
                               !.error = result.error,
                               !.played = result.ok]]
        /\ playingTTS' = ClearPlayingTTS(playingTTS, tts[c].alive, result.ok)
  /\ UNCHANGED <<appVars, detailVars, recVars, ignoredStop, svcVars, pureVars,
                 ttsRequests, nextTts, storage, boots, cancelled, settingsVars,
                 codecVars>>

NextTTS ==
  \/ Next
  \/ HandlePlayTTS
  \/ \E c \in Plays, resp \in TTSResponses : TTSResponse(c, resp)

SpecTTS == Init /\ [][NextTTS]_vars

\* --------------------------------------------- processAudioEntry on its own
InitAnalysis ==
  /\ InitApp
  /\ InitTTS
  /\ InitStore
  /\ InitCodec
  /\ InitSettings
  /\ analysisIn \in AnalysisInputs
  /\ analysisOut = NullObject

\* processAudioEntry applied to the response analysisIn
ApplyProcessAudioEntry ==
  /\ analysisOut = NullObject
  /\ analysisOut' = ProcessAudioEntry(analysisIn)
  /\ UNCHANGED <<appVars, detailVars, recVars, ignoredStop, svcVars,
                 analysisIn, ttsVars, storage, boots, cancelled, settingsVars,
                 codecVars>>

NextAnalysis == ApplyProcessAudioEntry

SpecAnalysis == InitAnalysis /\ [][NextAnalysis]_vars

\* ---------------------------------------------- decodeAudioData on its own
\* byte values the buffers are drawn from
SampleBytes == {0, 127, 128, 255}

ByteBuffers == UNION {[1..n -> SampleBytes] : n \in 0..MaxBytes}

ChannelCounts == {1, 2}

PcmInputs == [data : ByteBuffers, numChannels : ChannelCounts]

\* the divisor of decodeAudioData; a channel value v stands for v / 32768
SampleScale == 32768

\* dataInt16[j] of new Int16Array(data.buffer): the bytes 2j and 2j+1 of the
\* buffer read as a little-endian two's-complement number
Int16At(data, j) ==
  LET u == data[2 * j + 1] + 256 * data[2 * j + 2]
  IN IF u >= 32768 THEN u - 65536 ELSE u

\* decodeAudioData: new Int16Array(data.buffer) throws a RangeError when the
\* byte length is odd; ctx.createBuffer takes frameCount as an unsigned long
\* (the fraction is dropped) and throws a NotSupportedError when it is 0;
\* the loops then fill frame i of channel k with dataInt16[i * c + k] / 32768
DecodeAudioData(data, numChannels) ==
  IF Len(data) % 2 # 0 THEN [ok |-> FALSE, error |-> "RangeError"]
  ELSE LET frames == (Len(data) \div 2) \div numChannels
       IN IF frames = 0 THEN [ok |-> FALSE, error |-> "NotSupportedError"]
          ELSE [ok |-> TRUE,
                channels |->
                  [k \in 1..numChannels |->
                     [i \in 1..frames |->
                        Int16At(data, (i - 1) * numChannels + (k - 1))]]]

InitDecode ==
  /\ InitApp
  /\ InitTTS
  /\ InitStore
  /\ InitSettings
  /\ analysisIn = NoReply /\ analysisOut = NullObject
  /\ blobIn = <<>> /\ base64Out = NullObject /\ bytesOut = NullObject
  /\ pcmIn \in PcmInputs
  /\ pcmOut = NullObject

\* decodeAudioData applied to the buffer and channel count of pcmIn
ApplyDecodeAudioData ==
  /\ pcmOut = NullObject
  /\ pcmOut' = DecodeAudioData(pcmIn.data, pcmIn.numChannels)
  /\ UNCHANGED <<appVars, detailVars, recVars, ignoredStop, svcVars, pureVars,
                 ttsVars, storage, boots, cancelled, settingsVars, pcmIn,
                 blobIn,
                 base64Out, bytesOut>>

NextDecode == ApplyDecodeAudioData

SpecDecode == InitDecode /\ [][NextDecode]_vars

\* -------------------------------------- blobToBase64 and decode on their own
\* a text is a sequence of symbols: the 64 base64 digits are 0..63, the
\* other symbols of a data URL follow
Pad == 64
Comma == 65
DataScheme == 66
MediaType == 67
Base64Tag == 68

\* the base64 digits of a byte sequence, padded to a multiple of four
RECURSIVE Base64(_)
Base64(bytes) ==
  IF Len(bytes) = 0 THEN <<>>
  ELSE IF Len(bytes) = 1
  THEN <<bytes[1] \div 4, (bytes[1] % 4) * 16, Pad, Pad>>
  ELSE IF Len(bytes) = 2
  THEN <<bytes[1] \div 4, (bytes[1] % 4) * 16 + bytes[2] \div 16,
         (bytes[2] % 16) * 4, Pad>>
  ELSE <<bytes[1] \div 4, (bytes[1] % 4) * 16 + bytes[2] \div 16,
         (bytes[2] % 16) * 4 + bytes[3] \div 64, bytes[3] % 64>>
       \o Base64(SubSeq(bytes, 4, Len(bytes)))

\* what reader.result is for an empty blob: "data:" in some browsers,
\* "data:audio/webm;base64," in the others
EmptyBlobResults == {"data:", "data:audio/webm;base64,"}

\* reader.readAsDataURL(blob) for a blob of type audio/webm
ReadAsDataURL(bytes, emptyResult) ==
  IF bytes = <<>> /\ emptyResult = "data:" THEN <<DataScheme>>
  ELSE <<DataScheme, MediaType, Base64Tag, Comma>> \o Base64(bytes)

\* text.split(',')[1]: the piece between the first comma and the next one,
\* undefined when the text has no comma
SplitAtComma(text) ==
  LET commas == {i \in 1..Len(text) : text[i] = Comma}
  IN IF commas = {} THEN [defined |-> FALSE]
     ELSE LET first == CHOOSE i \in commas : \A j \in commas : i <= j
              later == commas \ {first}
              stop == IF later = {} THEN Len(text) + 1
                      ELSE CHOOSE i \in later : \A j \in later : i <= j
          IN [defined |-> TRUE, text |-> SubSeq(text, first + 1, stop - 1)]

\* blobToBase64: what the promise resolves with in reader.onloadend
BlobToBase64(bytes, emptyResult) == SplitAtComma(ReadAsDataURL(bytes, emptyResult))

\* the bytes of a sequence of base64 digits without padding
RECURSIVE BytesOf(_)
BytesOf(digits) ==
  IF Len(digits) < 2 THEN <<>>
  ELSE IF Len(digits) = 2
  THEN <<digits[1] * 4 + digits[2] \div 16>>
  ELSE IF Len(digits) = 3
  THEN <<digits[1] * 4 + digits[2] \div 16,
         (digits[2] % 16) * 16 + digits[3] \div 4>>
  ELSE <<digits[1] * 4 + digits[2] \div 16,
         (digits[2] % 16) * 16 + digits[3] \div 4,
         (digits[3] % 4) * 64 + digits[4]>>
       \o BytesOf(SubSeq(digits, 5, Len(digits)))

\* atob(text): up to two trailing pads of a text whose length is a multiple
\* of four are removed; a remaining length of 1 modulo 4 or a symbol that is
\* no base64 digit is an InvalidCharacterError
Atob(text) ==
  LET n == Len(text)
      pads == IF n % 4 # 0 \/ n = 0 THEN 0
              ELSE IF text[n] # Pad THEN 0
              ELSE IF text[n - 1] # Pad THEN 1 ELSE 2
      digits == SubSeq(text, 1, n - pads)
  IN IF Len(digits) % 4 = 1 \/ \E i \in 1..Len(digits) : digits[i] >= Pad
     THEN [ok |-> FALSE, error |-> "InvalidCharacterError"]
     ELSE [ok |-> TRUE, bytes |-> BytesOf(digits)]

\* decode(base64): atob, then one byte per character code; atob(undefined)
\* is atob("undefined"), nine base64 digits
Decode(base64) ==
  IF base64.defined THEN Atob(base64.text)
  ELSE [ok |-> FALSE, error |-> "InvalidCharacterError"]

InitTransfer ==
  /\ InitApp
  /\ InitTTS
  /\ InitStore
  /\ InitSettings
  /\ analysisIn = NoReply /\ analysisOut = NullObject
  /\ pcmIn = NullObject /\ pcmOut = NullObject
  /\ blobIn \in ByteBuffers
  /\ base64Out = NullObject
  /\ bytesOut = NullObject

\* blobToBase64 applied to a blob holding the bytes blobIn
ApplyBlobToBase64 ==
  /\ base64Out = NullObject
  /\ \E emptyResult \in EmptyBlobResults :
       base64Out' = BlobToBase64(blobIn, emptyResult)
  /\ UNCHANGED <<appVars, detailVars, recVars, ignoredStop, svcVars, pureVars,
                 ttsVars, storage, boots, cancelled, settingsVars, pcmIn, pcmOut,
                 blobIn, bytesOut>>

\* decode applied to what blobToBase64 resolved with
ApplyDecode ==
  /\ base64Out # NullObject /\ bytesOut = NullObject
  /\ bytesOut' = Decode(base64Out)
  /\ UNCHANGED <<appVars, detailVars, recVars, ignoredStop, svcVars, pureVars,
                 ttsVars, storage, boots, cancelled, settingsVars, pcmIn, pcmOut,
                 blobIn, base64Out>>

NextTransfer == ApplyBlobToBase64 \/ ApplyDecode

SpecTransfer == InitTransfer /\ [][NextTransfer]_vars

\* ------------------------------------------- SettingsView and the reminder
\* the instants of the clock: DaySlots on each of MaxDays days
Instants == 0..(MaxDays * Len(DaySlots) - 1)

\* now.toDateString(): the calendar day of an instant
ToDateString(t) == (t \div Len(DaySlots)) + 1

\* now.toLocaleTimeString('fr-FR', {hour: '2-digit', minute: '2-digit'})
ToLocaleTimeString(t) == DaySlots[(t % Len(DaySlots)) + 1]

\* what is left unchanged by every step of the settings and the reminder
restVars ==
  <<entries, selectedEntry, isProcessing, hrc, detailVars, recVars,
    ignoredStop, svcVars, pureVars, ttsVars, storage, boots, cancelled,
    codecVars>>

\* the nav bar opens the settings: SettingsView mounts with
\* useState(Notification.permission)
OpenSettings ==
  /\ view = "HOME"
  /\ view' = "SETTINGS"
  /\ permission' = notificationPermission
  /\ UNCHANGED <<settings, notificationPermission, asks, now,
                 lastReminderDate, shown, restVars>>

\* onBack of SettingsView: setView(HOME), the SettingsView is unmounted
CloseSettings ==
  /\ view = "SETTINGS"
  /\ view' = "HOME"
  /\ asks' = [a \in Asks |-> [asks[a] EXCEPT !.alive = FALSE]]
  /\ UNCHANGED <<settings, permission, notificationPermission, now,
                 lastReminderDate, shown, restVars>>

\* handleToggleReminder up to the await of requestPermission, or to its end
\* when no permission has to be requested
HandleToggleReminder ==
  /\ view = "SETTINGS"
  /\ LET newValue == ~settings.reminderEnabled
     IN IF newValue /\ permission # "granted"
        THEN /\ \E a \in Asks :
                  /\ asks[a].pc = "idle"
                  /\ \A b \in Asks : b < a => asks[b].pc # "idle"
                  /\ asks' = [asks EXCEPT ![a] =
                                [pc |-> "pending", settings |-> settings,
                                 alive |-> TRUE]]
             /\ UNCHANGED settings
        ELSE /\ settings' = [settings EXCEPT !.reminderEnabled = newValue]
             /\ UNCHANGED asks
  /\ UNCHANGED <<view, permission, notificationPermission, now,
                 lastReminderDate, shown, restVars>>

\* Notification.requestPermission(): the current permission unless it is
\* "default", in which case the user answers the prompt
RequestPermission(current, answer) ==
  IF current = "default" THEN answer ELSE current

\* requestPermission resolves: setPermission(result), then the rest of
\* handleToggleReminder with the settings it captured
RequestPermissionResolved(a, answer) ==
  /\ asks[a].pc = "pending"
  /\ LET result == RequestPermission(notificationPermission, answer)
     IN /\ notificationPermission' = result
        /\ permission' = IF asks[a].alive THEN result ELSE permission
        /\ settings' = IF result = "granted"
                       THEN [asks[a].settings EXCEPT !.reminderEnabled = TRUE]
                       ELSE settings
  /\ asks' = [asks EXCEPT ![a] = [FreshAsk EXCEPT !.pc = "done"]]
  /\ UNCHANGED <<view, now, lastReminderDate, shown, restVars>>

\* handleTimeChange: the time input, rendered while the reminder is enabled
HandleTimeChange(t) ==
  /\ view = "SETTINGS"
  /\ settings.reminderEnabled
  /\ t \in TimeValues /\ t # settings.reminderTime
  /\ settings' = [settings EXCEPT !.reminderTime = t]
  /\ UNCHANGED <<view, permission, notificationPermission, asks, now,
                 lastReminderDate, shown, restVars>>

\* the user changes the site's notification permission in the browser
ChangePermissionInBrowser(p) ==
  /\ p \in NotificationPermissions /\ p # notificationPermission
  /\ notificationPermission' = p
  /\ UNCHANGED <<view, settings, permission, asks, now, lastReminderDate,
                 shown, restVars>>

\* checkReminder without the test of 'last_reminder_date'
CheckReminderEveryPoll(st, t, perm, last) ==
  IF ToLocaleTimeString(t) = st.reminderTime /\ perm = "granted"
  THEN [notify |-> TRUE, last |-> ToDateString(t)]
  ELSE [notify |-> FALSE, last |-> last]

\* checkReminder: whether a Notification is shown and the value of
\* 'last_reminder_date' afterwards
CheckReminder(st, t, perm, last) ==
  IF /\ ToLocaleTimeString(t) = st.reminderTime
     /\ last # ToDateString(t)
     /\ perm = "granted"
  THEN [notify |-> TRUE, last |-> ToDateString(t)]
  ELSE [notify |-> FALSE, last |-> last]

\* the interval callback of the reminder effect; the interval exists only
\* while settings.reminderEnabled
Poll ==
  /\ settings.reminderEnabled
  /\ LET r == CheckReminder(settings, now, notificationPermission,
                            lastReminderDate)
     IN /\ shown' = IF r.notify THEN Append(shown, now) ELSE shown
        /\ lastReminderDate' = r.last
  /\ UNCHANGED <<view, settings, permission, notificationPermission, asks,
                 now, restVars>>

\* time passes to the next instant the model follows
AdvanceClock ==
  /\ now + 1 \in Instants
  /\ now' = now + 1
  /\ UNCHANGED <<view, settings, permission, notificationPermission, asks,
                 lastReminderDate, shown, restVars>>

NextReminder ==
  \/ OpenSettings
  \/ CloseSettings
  \/ HandleToggleReminder
  \/ \E a \in Asks, answer \in NotificationPermissions :
       RequestPermissionResolved(a, answer)
  \/ \E t \in TimeValues : HandleTimeChange(t)
  \/ \E p \in NotificationPermissions : ChangePermissionInBrowser(p)
  \/ Poll
  \/ AdvanceClock

SpecReminder == Init /\ [][NextReminder]_vars

\* ------------------------------------------------------------------ claims
LiveStreams(i) == {s \in Sessions : sess[s].inst = i /\ sess[s].stream = "live"}

\* C1: for one AudioRecorder there are never two concurrently live
\* microphone streams, whatever the sequence of start and stop clicks.
C1_AtMostOneLiveStream == \A i \in Sessions : Cardinality(LiveStreams(i)) <= 1

\* the AudioRecorder instance of session s is still mounted
InstanceMounted(s) == RecorderMounted /\ cur = sess[s].inst

\* session s has ended: its stop event was dispatched, or its recorder was
\* unmounted while it was recording
SessionEnded(s) ==
  \/ sess[s].phase = "stopped"
  \/ sess[s].phase = "recording" /\ ~InstanceMounted(s)

\* C2: once a recording session has ended, by stopRecording or by the
\* unmount of its recorder, its microphone stream is stopped and its
\* analysis audio context is closed.
C2_ReleasedOnEveryExit ==
  \A s \in Sessions :
    SessionEnded(s) => sess[s].stream # "live" /\ sess[s].ctx # "open"

\* entry e carries every required AnalysisResult field
WellFormedEntry(e) ==
  /\ e.transcription # Undefined
  /\ \A f \in AnalysisFields : e.analysis[f] # Undefined

\* C3: a response that lacks a required AnalysisResult field adds no entry:
\* every entry of the collection carries every required field.
C3_NoEntryFromMalformedResponse ==
  \A k \in 1..Len(entries) : WellFormedEntry(entries[k])

Outstanding(s) == hrc[s] \in {"encoding", "sending"}

\* C4: a step of handleRecordingComplete other than its successful
\* completion leaves entries, selectedEntry and view unchanged, and every
\* entry of the collection comes from a call that succeeded.
C4_FailureLeavesStateUntouched ==
  /\ [](\A k \in 1..Len(entries) : hrc[entries[k].id] = "succeeded")
  /\ [][\A s \in Sessions :
          (hrc'[s] # hrc[s] /\ hrc'[s] # "succeeded")
            => UNCHANGED <<entries, selectedEntry, view>>]_vars

C4_Witness ==
  \E s, t \in Sessions :
    /\ hrc[s] = "failed" /\ hrc[t] = "succeeded"
    /\ entries # <<>> /\ selectedEntry # NullObject

\* C5: at most one processAudioEntry call is outstanding at a time.
C5_SingleRequestInFlight ==
  Cardinality({s \in Sessions : hrc[s] = "sending"}) <= 1

\* C6: isProcessing is true exactly while a handleRecordingComplete call is
\* outstanding.
C6_ProcessingIffOutstanding ==
  isProcessing <=> \E s \in Sessions : Outstanding(s)

\* C7: the blob passed to onRecordingComplete is the concatenation, in
\* arrival order, of exactly the chunks its session's recorder emitted.
C7_BlobIsSessionChunks ==
  \A s \in Sessions :
    delivered[s] > 0 => blobOut[s] = Flatten(sess[s].received)

\* C8: onRecordingComplete has been invoked exactly once for a session whose
\* stop event was dispatched, and never for any other session (pending,
\* failed, still recording, or waiting for its stop event).
C8_DeliveredExactlyOnce ==
  \A s \in Sessions :
    delivered[s] = IF sess[s].phase = "stopped" THEN 1 ELSE 0

C8_Witness ==
  \E s, t \in Sessions :
    /\ sess[s].phase = "stopped" /\ delivered[s] = 1
    /\ sess[t].phase \in {"failed", "recording"} /\ delivered[t] = 0

\* C9: stopRecording invoked while isRecording is false changes nothing: no
\* blob is delivered, and isRecording, duration, the timer and the recorder
\* stay as they were.
C9_StopWhileIdleIsNoop ==
  [][ignoredStop' =>
       UNCHANGED <<rec, cur, sess, nextSess, delivered, blobOut, appVars,
                   detailVars>>]_vars

C9_Witness ==
  /\ ignoredStop
  /\ cur # Null
  /\ rec[cur].mediaRecorderRef # Null
  /\ rec[cur].duration > 0

\* C10: a startRecording that could not acquire the microphone fails towards
\* its caller: the error is propagated, not handled inside the recorder.
C10_FailureSurfacedToCaller ==
  \A s \in Sessions : sess[s].phase = "failed" => sess[s].err = "propagated"

\* C11: a startRecording that failed, at whichever step, holds nothing: its
\* microphone stream is not live, it opened no audio context that is still
\* open, it runs no timer, it delivered no blob, and a recorder whose only
\* start it was is not recording.
C11_FailedStartHoldsNothing ==
  \A s \in Sessions :
    sess[s].phase = "failed" =>
      /\ sess[s].stream # "live"
      /\ sess[s].ctx # "open"
      /\ sess[s].timer # "running"
      /\ delivered[s] = 0
      /\ ({x \in Sessions : sess[x].inst = sess[s].inst} = {s}
            => ~rec[sess[s].inst].isRecording)

\* a response text that is present and is not the JSON of an object
MalformedResponses == {r \in Responses : r.kind \in {"garbage", "jsonNull"}}

\* C12: a full analysis whose response carried no text has failed with the
\* error of the empty-response test, an error no malformed response
\* produces, and the collection holds no entry of that call.
C12_EmptyResponseFailsDistinctly ==
  \A s \in Sessions :
    (sess[s].site = "home" /\ reply[s].kind = "empty") =>
      /\ hrc[s] = "failed"
      /\ ~ProcessAudioEntry(reply[s]).ok
      /\ \A r \in MalformedResponses :
           ProcessAudioEntry(r).error # ProcessAudioEntry(reply[s]).error
      /\ \A k \in 1..Len(entries) : entries[k].id # s

C12_Witness ==
  \E s \in Sessions :
    sess[s].site = "home" /\ reply[s].kind = "empty" /\ hrc[s] = "failed"

\* an exercise-evaluation response: text that is the JSON of an object with
\* transcription, success, score and critique
WellFormedFeedbackResponse(r) ==
  /\ r.kind = "json"
  /\ \A f \in FeedbackFields : r.payload[f] # Undefined

\* C13: an exercise evaluation whose response carried no text has failed
\* with an error that a text that does not parse does not produce, and one
\* whose response does not parse or lacks one of transcription, success,
\* score, critique has failed as well, so that it produced no feedback.
C13_ExerciseFailureModes ==
  \A s \in Sessions :
    (sess[s].site = "detail" /\ reply[s] # NoReply) =>
      /\ reply[s].kind = "empty" =>
           /\ exc[s] = "failed"
           /\ EvaluateExercise([kind |-> "garbage"]).error
                # EvaluateExercise(reply[s]).error
      /\ (reply[s].kind # "reject" /\ ~WellFormedFeedbackResponse(reply[s])) =>
           exc[s] = "failed"

\* C14: what processAudioEntry returns for a response whose payload carries
\* every required field is the payload's transcription and, field by field,
\* the payload's summary, mood, tags, metrics, deepAnalysis, suggestions and
\* eloquenceTip, with numeric metrics outside 0..MetricMax left as they are.
C14_ResultIsPayload ==
  (analysisOut # NullObject /\ analysisIn.kind = "json") =>
    /\ analysisOut.ok
    /\ analysisOut.transcription = analysisIn.payload["transcription"]
    /\ DOMAIN analysisOut.analysis = AnalysisFields
    /\ \A f \in AnalysisFields :
         analysisOut.analysis[f] = analysisIn.payload[f]

C14_Witness ==
  /\ analysisOut # NullObject
  /\ analysisIn.kind = "json"
  /\ analysisIn.payload["metrics"]["clarity"] > MetricMax
  /\ analysisIn.payload["metrics"]["assertiveness"] < 0
  /\ analysisOut.ok

\* C15: when an evaluateExercise call completes on a response that carries
\* transcription, success, score and critique, what it returns is that
\* payload, and the EntryDetail that made the call goes to FEEDBACK holding
\* that payload as its exerciseFeedback.
C15_FeedbackIsPayload ==
  [][\A s \in Sessions :
       (exc[s] = "sending" /\ exc'[s] # "sending"
          /\ WellFormedFeedbackResponse(reply'[s])) =>
         /\ exc'[s] = "succeeded"
         /\ EvaluateExercise(reply'[s]).feedback = reply'[s].payload
         /\ sess[s].ownerAlive =>
              /\ exerciseState' = "FEEDBACK"
              /\ exerciseFeedback' = reply'[s].payload]_vars

C15_Witness ==
  \E s \in Sessions :
    /\ exc[s] = "succeeded"
    /\ WellFormedFeedbackResponse(reply[s])
    /\ exerciseState = "FEEDBACK"
    /\ exerciseFeedback = reply[s].payload

\* processAudioEntry or evaluateExercise has been invoked for session s
ServiceInvoked(s) ==
  hrc[s] = "sending" \/ exc[s] = "sending" \/ reply[s] # NoReply

\* C16: every processAudioEntry, evaluateExercise and playEloquenceTTS
\* invocation, pending, succeeded or failed, has issued one remote request,
\* and no request exists without an invocation.
C16_OneRequestPerInvocation ==
  /\ \A s \in Sessions : requests[s] = IF ServiceInvoked(s) THEN 1 ELSE 0
  /\ \A c \in Plays : ttsRequests[c] = IF tts[c].pc = "idle" THEN 0 ELSE 1

C16_Witness ==
  /\ \E s \in Sessions : hrc[s] = "succeeded" /\ requests[s] = 1
  /\ \E s \in Sessions : exc[s] = "failed" /\ reply[s] # NoReply
  /\ \E c \in Plays : tts[c].pc = "failed"
  /\ \E c \in Plays : tts[c].pc = "resolved"

\* C17: at most one playEloquenceTTS call is outstanding.
C17_SingleSynthesis ==
  Cardinality({c \in Plays : tts[c].pc = "requesting"}) <= 1

\* C18: a playEloquenceTTS call whose response carried no audio has failed
\* with the error of the missing-audio test and played nothing, and
\* playingTTS is set only while the mounted EntryDetail awaits a call, so
\* that a later click is accepted.
C18_NoAudioFailsAndClears ==
  /\ \A c \in Plays :
       tts[c].resp = "noAudio" =>
         /\ tts[c].pc = "failed"
         /\ tts[c].error = "No audio data returned"
         /\ ~tts[c].played
  /\ playingTTS # NullTTS =>
       \E c \in Plays : tts[c].pc = "requesting" /\ tts[c].alive

C18_Witness ==
  \E c, d \in Plays :
    /\ c < d
    /\ tts[c].resp = "noAudio"
    /\ tts[d].pc = "requesting" /\ tts[d].alive
    /\ ttsRequests[c] = 1

\* call s of handleRecordingComplete completes successfully in this step
CompletesSuccessfully(s) == hrc[s] = "sending" /\ hrc'[s] = "succeeded"

\* C19 as stated: while the page lives, a step that changes the entry
\* collection is the successful completion of one analysis and appends one
\* new entry after the existing ones, which stay as they are.
C19_OnlySuccessAppends ==
  [][(entries' # entries /\ boots' = boots) =>
       \E s \in Sessions :
         /\ CompletesSuccessfully(s)
         /\ Len(entries') = Len(entries) + 1
         /\ SubSeq(entries', 1, Len(entries)) = entries
         /\ entries'[Len(entries')].id = s]_vars

\* C19 amended: while the page lives, a step that changes the entry
\* collection is the successful completion of one analysis and puts one new
\* entry in front of the existing ones, which stay as they are and in their
\* order.
C19_OnlySuccessPrepends ==
  [][(entries' # entries /\ boots' = boots) =>
       \E s \in Sessions :
         /\ CompletesSuccessfully(s)
         /\ Len(entries') = Len(entries) + 1
         /\ SubSeq(entries', 2, Len(entries')) = entries
         /\ entries'[1].id = s
         /\ \A k \in 1..Len(entries) : entries[k].id # s]_vars

C19_Witness ==
  /\ Len(entries) = 2
  /\ hrc[entries[1].id] = "succeeded"
  /\ entries[1].id > entries[2].id

\* an entry as it is after a reload: the same fields, no audioUrl
WithoutAudioUrl(e) == [e EXCEPT !.audioUrl = Null]

EntryOf(s) == \E k \in 1..Len(entries) : entries[k].id = s

\* C21: within one handleRecordingComplete invocation the steps run in
\* sequence: no remote analysis request exists while the blob is still being
\* encoded, exactly one exists once the encoding has completed, and an entry
\* of the invocation is in the collection only after the request was issued
\* and its result has come back as a usable analysis
C21_StepsInSequence ==
  \A s \in Sessions :
    /\ hrc[s] \in {"idle", "encoding"} /\ exc[s] = "idle" =>
         requests[s] = 0 /\ reply[s] = NoReply /\ ~EntryOf(s)
    /\ hrc[s] = "sending" =>
         requests[s] = 1 /\ reply[s] = NoReply /\ ~EntryOf(s)
    /\ EntryOf(s) =>
         /\ hrc[s] = "succeeded" /\ requests[s] = 1
         /\ reply[s] # NoReply /\ ProcessAudioEntry(reply[s]).ok

C21_Witness ==
  \E s, t \in Sessions :
    /\ EntryOf(s) /\ hrc[s] = "succeeded"
    /\ hrc[t] = "sending" /\ requests[t] = 1

\* C22: after the user cancels an exercise attempt in RECORDING, no
\* evaluation request is ever sent for that attempt
C22_NoEvaluationAfterCancel == \A s \in cancelled : requests[s] = 0

\* C25: whenever the displayed entry changes while the detail view stays
\* open, the exercise state shown for the new entry is IDLE and no feedback
\* is held
C25_ExerciseBelongsToDisplayedEntry ==
  [][view = "DETAILS" /\ view' = "DETAILS" /\ selectedEntry' # selectedEntry
       => exerciseState' = "IDLE" /\ exerciseFeedback' = NullObject]_vars

\* C28: the elapsed-time counter of a recorder increases only while its
\* isRecording is true, so it never changes after stopRecording
C28_CounterOnlyWhileRecording ==
  [][\A i \in Sessions :
       rec'[i].duration > rec[i].duration => rec[i].isRecording]_vars

\* C29: in every reachable App state view = DETAILS implies that
\* selectedEntry is not null; and in the state right after an analysis
\* succeeded, selectedEntry is the entry just created, that entry is in the
\* collection and view is DETAILS
C29_DetailsHasSelectedEntry ==
  /\ [](view = "DETAILS" => selectedEntry # NullObject)
  /\ [][\A s \in Sessions :
          CompletesSuccessfully(s) =>
            /\ selectedEntry' # NullObject /\ selectedEntry'.id = s
            /\ \E k \in 1..Len(entries') : entries'[k] = selectedEntry'
            /\ ~(\E k \in 1..Len(entries) : entries[k].id = s)
            /\ view' = "DETAILS"]_vars

C29_Witness ==
  /\ view = "DETAILS" /\ Len(entries) = 2
  /\ selectedEntry = entries[1]
  /\ hrc[selectedEntry.id] = "succeeded"

\* C23: decodeAudioData on a byte buffer of length L with channel count c
\* produces c channels of exactly L/2/c frames each, frame i of channel k
\* being the 16-bit signed sample at index i*c+k divided by 32768, a value in
\* [-1.0, 1.0]
C23_DecodesEveryBuffer ==
  pcmOut # NullObject =>
    LET L == Len(pcmIn.data)
        c == pcmIn.numChannels
    IN /\ pcmOut.ok
       /\ DOMAIN pcmOut.channels = 1..c
       /\ \A k \in 1..c :
            /\ Len(pcmOut.channels[k]) * 2 * c = L
            /\ \A i \in 1..Len(pcmOut.channels[k]) :
                 /\ pcmOut.channels[k][i] =
                      Int16At(pcmIn.data, (i - 1) * c + (k - 1))
                 /\ pcmOut.channels[k][i] >= -SampleScale
                 /\ pcmOut.channels[k][i] <= SampleScale

\* C24: for every byte buffer, the empty one included, decoding the text
\* produced by blobToBase64 with decode yields exactly the original bytes
C24_RoundTrip ==
  bytesOut # NullObject => bytesOut.ok /\ bytesOut.bytes = blobIn

\* C26: the reminder poll shows a notification only when the reminder is
\* enabled, the notification permission is granted and the current HH:MM
\* equals reminderTime, and no two notifications are shown on the same
\* calendar day, however many polls run and however the settings change
C26_OneReminderPerDay ==
  /\ [](\A i, j \in 1..Len(shown) :
          i # j => ToDateString(shown[i]) # ToDateString(shown[j]))
  /\ [][shown' # shown =>
          /\ shown' = Append(shown, now)
          /\ settings.reminderEnabled
          /\ notificationPermission = "granted"
          /\ ToLocaleTimeString(now) = settings.reminderTime]_vars

C26_Witness ==
  /\ Len(shown) = 2
  /\ ToLocaleTimeString(shown[1]) # ToLocaleTimeString(shown[2])

\* C27: handleToggleReminder turns reminderEnabled on only when the
\* notification permission is granted; when the permission it requested is
\* refused the settings are left unchanged; and a toggle leaves reminderTime
\* as it is, as a time change leaves reminderEnabled as it is
C27_ToggleRespectsPermission ==
  [][/\ settings'.reminderEnabled /\ ~settings.reminderEnabled =>
          notificationPermission' = "granted"
     /\ \A a \in Asks :
          asks[a].pc = "pending" /\ asks'[a].pc = "done" =>
            /\ settings'.reminderTime = settings.reminderTime
            /\ notificationPermission' # "granted" => settings' = settings
     /\ \/ settings'.reminderEnabled = settings.reminderEnabled
        \/ settings'.reminderTime = settings.reminderTime]_vars

====
